---- MODULE Spec2Model ----
(***************************************************************************)
(* A model of agp_api: the RouteManager (route/route_manager.py) and, of    *)
(* GatewayContainer (gateway/gateway_container.py), the route registration *)
(* control surface, connect_with_retry and the start_server loop with      *)
(* process_message.                                                        *)
(*                                                                         *)
(* A Python dict is a finite function (its DOMAIN is the key set); None is *)
(* the value None below; a RouteInfo is a record with the three fields of  *)
(* the dataclass.  A list returned by a query is a sequence.               *)
(***************************************************************************)
EXTENDS Integers, Sequences, FiniteSets, TLC

\* ------------------------------------------------------------------ bounds

\* Number of distinct remote_agent strings the RouteManager API is driven with.
NumAgents == 3
\* Number of distinct remote_agent strings the GatewayContainer is driven with.
NumGatewayAgents == 1
NumTasks == 2

AgentNames == <<"agent1", "agent2", "agent3", "agent4", "agent5">>
Agents == {AgentNames[i] : i \in 1..NumAgents}
GatewayAgents == {AgentNames[i] : i \in 1..NumGatewayAgents}
Organizations == {"org1", "org2"}
Namespaces == {"ns1", "ns2"}

\* Ticks of the clock in one second.
TicksPerSecond == 10
\* Ticks a slow transport call takes.
SlowCall == 7
\* Ticks that may pass between the statements of connect_with_retry.
MaxOverhead == 3
\* The cap of the backoff delay, in seconds.
MaxBackoffSeconds == 30
\* The max_duration and initial_delay arguments connect_with_retry is called
\* with, in seconds.
MaxDurations == {-1, 0, 2, 70}
InitialDelays == {1, 31}
CallDurations == {0, SlowCall}

\* Number of messages the transport delivers to one start_server loop.
MaxMessages == 2
\* http.HTTPStatus
OK == 200
NOT_FOUND == 404
UNPROCESSABLE_ENTITY == 422
INTERNAL_SERVER_ERROR == 500

\* ------------------------------------------------------------ Python values

None == [none |-> TRUE]

\* RouteInfo(organization, namespace, remote_agent): the dataclass constructor.
RouteInfo(organization, namespace, remote_agent) ==
    [organization |-> organization, namespace |-> namespace,
     remote_agent |-> remote_agent]

\* isinstance(x, RouteInfo)
IsRouteInfo(x) == DOMAIN x = {"organization", "namespace", "remote_agent"}

\* bool(x) of a value that is None or a RouteInfo: the dataclass defines
\* neither __bool__ nor __len__, so every RouteInfo is truthy.
Truthy(x) == x # None

\* dict operations
EmptyDict == [k \in {} |-> None]
DictGet(d, k) == IF k \in DOMAIN d THEN d[k] ELSE None
DictSet(d, k, v) == [x \in DOMAIN d \cup {k} |-> IF x = k THEN v ELSE d[x]]
DictPop(d, k) == [x \in DOMAIN d \ {k} |-> d[x]]

\* list(d.values()): the values of d as a list, one per key.
RECURSIVE DictValues(_)
DictValues(d) ==
    IF DOMAIN d = {} THEN << >>
    ELSE LET k == CHOOSE x \in DOMAIN d : TRUE
         IN <<d[k]>> \o DictValues(DictPop(d, k))

Range(s) == {s[i] : i \in DOMAIN s}

\* --------------------------------------------------------------- the state

VARIABLES
    routes_by_remote_agent,                 \* RouteManager._routes_by_remote_agent
    routes_by_organization_and_namespace,   \* RouteManager._routes_by_organization_and_namespace
    gateway_routes,   \* routes the transport acknowledged as set and not since as removed
    last,             \* the call made last: its arguments, progress and outcome
    before,           \* the RouteManager as it was when that call started
    now,              \* time.time(), in ticks
    cwr,              \* the frame of the connect_with_retry call
    srv,              \* the frame of the start_server call
    tasks             \* the register_route/deregister_route tasks on the event loop

vars == <<routes_by_remote_agent, routes_by_organization_and_namespace,
          gateway_routes, last, before, now, cwr, srv, tasks>>

\* The variables of the registry and of its transport routes.
route_vars == <<routes_by_remote_agent, routes_by_organization_and_namespace,
                gateway_routes, last, before, tasks>>

\* The tasks of the event loop that call register_route or deregister_route,
\* none of them started.
TaskIds == 1..NumTasks

NoTasks == [t \in TaskIds |-> [pc |-> "not_started"]]

\* A coroutine that has not been called.
NotCalled == [pc |-> "not_called"]

\* The RouteManager object.
Self == [routes_by_remote_agent |-> routes_by_remote_agent,
         routes_by_organization_and_namespace |->
             routes_by_organization_and_namespace]

\* RouteManager.__init__
RouteManagerInit ==
    [routes_by_remote_agent |-> EmptyDict,
     routes_by_organization_and_namespace |-> EmptyDict]

\* ------------------------------------------------------------ RouteManager

\* A cleanup of the nested index that leaves emptied containers in place.
delete_nested_keep_empty(nested, actual_org, actual_namespace, remote_agent) ==
    IF actual_org \in DOMAIN nested /\ actual_namespace \in DOMAIN nested[actual_org]
    THEN [nested EXCEPT ![actual_org][actual_namespace] = DictPop(@, remote_agent)]
    ELSE nested

\* A removal that drops the whole bucket of the namespace with the agent.
delete_nested_whole_bucket(nested, actual_org, actual_namespace, remote_agent) ==
    IF actual_org \in DOMAIN nested /\ actual_namespace \in DOMAIN nested[actual_org]
    THEN LET n2 == [nested EXCEPT ![actual_org] = DictPop(@, actual_namespace)]
         IN IF DOMAIN n2[actual_org] = {} THEN DictPop(n2, actual_org) ELSE n2
    ELSE nested

\* delete_route, lines 123-138: remove the agent from its bucket of the nested
\* index, then the bucket if it is empty, then the organization if it is empty.
delete_nested(nested, actual_org, actual_namespace, remote_agent) ==
    IF actual_org \in DOMAIN nested /\ actual_namespace \in DOMAIN nested[actual_org]
    THEN LET n1 == [nested EXCEPT ![actual_org][actual_namespace] =
                        DictPop(@, remote_agent)]
             n2 == IF DOMAIN n1[actual_org][actual_namespace] = {}
                   THEN [n1 EXCEPT ![actual_org] = DictPop(@, actual_namespace)]
                   ELSE n1
             n3 == IF DOMAIN n2[actual_org] = {}
                   THEN DictPop(n2, actual_org)
                   ELSE n2
         IN n3
    ELSE nested

\* A delete_route without the organization/namespace guard of line 116.
delete_route_unguarded(self, organization, namespace, remote_agent) ==
    IF remote_agent \notin DOMAIN self.routes_by_remote_agent
    THEN [self |-> self, ret |-> FALSE]
    ELSE LET actual_route == self.routes_by_remote_agent[remote_agent]
         IN [self |->
                [routes_by_remote_agent |->
                    DictPop(self.routes_by_remote_agent, remote_agent),
                 routes_by_organization_and_namespace |->
                    delete_nested(self.routes_by_organization_and_namespace,
                                  actual_route.organization,
                                  actual_route.namespace, remote_agent)],
             ret |-> TRUE]

\* A delete_route whose guard compares the organization only.
delete_route_org_guard_only(self, organization, namespace, remote_agent) ==
    IF remote_agent \notin DOMAIN self.routes_by_remote_agent
    THEN [self |-> self, ret |-> FALSE]
    ELSE LET actual_route == self.routes_by_remote_agent[remote_agent]
         IN IF organization # actual_route.organization
            THEN [self |-> self, ret |-> FALSE]
            ELSE [self |->
                    [routes_by_remote_agent |->
                        DictPop(self.routes_by_remote_agent, remote_agent),
                     routes_by_organization_and_namespace |->
                        delete_nested(self.routes_by_organization_and_namespace,
                                      actual_route.organization,
                                      actual_route.namespace, remote_agent)],
                  ret |-> TRUE]

\* A delete_route that removes the route from the flat index only.
delete_route_flat_only(self, organization, namespace, remote_agent) ==
    IF remote_agent \notin DOMAIN self.routes_by_remote_agent
    THEN [self |-> self, ret |-> FALSE]
    ELSE LET actual_route == self.routes_by_remote_agent[remote_agent]
         IN IF \/ organization # actual_route.organization
               \/ namespace # actual_route.namespace
            THEN [self |-> self, ret |-> FALSE]
            ELSE [self |->
                    [routes_by_remote_agent |->
                        DictPop(self.routes_by_remote_agent, remote_agent),
                     routes_by_organization_and_namespace |->
                        self.routes_by_organization_and_namespace],
                  ret |-> TRUE]

\* RouteManager.delete_route: the RouteManager afterwards and the value returned.
delete_route(self, organization, namespace, remote_agent) ==
    IF remote_agent \notin DOMAIN self.routes_by_remote_agent
    THEN [self |-> self, ret |-> FALSE]
    ELSE LET actual_route == self.routes_by_remote_agent[remote_agent]
             actual_org == actual_route.organization
             actual_namespace == actual_route.namespace
         IN IF organization # actual_org \/ namespace # actual_namespace
            THEN [self |-> self, ret |-> FALSE]
            ELSE [self |->
                    [routes_by_remote_agent |->
                        DictPop(self.routes_by_remote_agent, remote_agent),
                     routes_by_organization_and_namespace |->
                        delete_nested(self.routes_by_organization_and_namespace,
                                      actual_org, actual_namespace, remote_agent)],
                  ret |-> TRUE]

\* An insertion that stores the new RouteInfo in the flat index only.
insert_route_flat_only(self, organization, namespace, remote_agent) ==
    [routes_by_remote_agent |->
         DictSet(self.routes_by_remote_agent, remote_agent,
                 RouteInfo(organization, namespace, remote_agent)),
     routes_by_organization_and_namespace |->
         self.routes_by_organization_and_namespace]

\* add_route, lines 82-90: store the new RouteInfo in both indexes.
insert_route(self, organization, namespace, remote_agent) ==
    LET route_info == RouteInfo(organization, namespace, remote_agent)
        nested == self.routes_by_organization_and_namespace
        n1 == IF organization \notin DOMAIN nested
              THEN DictSet(nested, organization, EmptyDict)
              ELSE nested
        n2 == IF namespace \notin DOMAIN n1[organization]
              THEN [n1 EXCEPT ![organization] = DictSet(@, namespace, EmptyDict)]
              ELSE n1
        n3 == [n2 EXCEPT ![organization][namespace] =
                  DictSet(@, remote_agent, route_info)]
    IN [routes_by_remote_agent |->
            DictSet(self.routes_by_remote_agent, remote_agent, route_info),
        routes_by_organization_and_namespace |-> n3]

\* An add_route that removes the route when it is the one the agent has.
add_route_removes_repeated(self, organization, namespace, remote_agent) ==
    LET existing_route == DictGet(self.routes_by_remote_agent, remote_agent)
        self1 == IF Truthy(existing_route)
                 THEN delete_route(self, existing_route.organization,
                                   existing_route.namespace, remote_agent).self
                 ELSE self
    IN [self |-> IF existing_route =
                        RouteInfo(organization, namespace, remote_agent)
                 THEN self1
                 ELSE insert_route(self1, organization, namespace, remote_agent),
        raised |-> "none",
        existing_route |-> existing_route]

\* An add_route that does not remove the existing route of the agent first.
add_route_no_replace(self, organization, namespace, remote_agent) ==
    [self |-> insert_route(self, organization, namespace, remote_agent),
     raised |-> "none",
     existing_route |-> DictGet(self.routes_by_remote_agent, remote_agent)]

\* An add_route that keeps the route an agent already has.
add_route_keep_existing(self, organization, namespace, remote_agent) ==
    LET existing_route == DictGet(self.routes_by_remote_agent, remote_agent)
    IN [self |-> IF Truthy(existing_route)
                 THEN self
                 ELSE insert_route(self, organization, namespace, remote_agent),
        raised |-> "none",
        existing_route |-> existing_route]

\* RouteManager.add_route: the RouteManager afterwards, the exception raised
\* ("none" when it returns) and the existing_route it found at line 67.
add_route(self, organization, namespace, remote_agent) ==
    LET existing_route == DictGet(self.routes_by_remote_agent, remote_agent)
    IN IF Truthy(existing_route) /\ ~IsRouteInfo(existing_route)
       THEN [self |-> self, raised |-> "ValueError",
             existing_route |-> existing_route]
       ELSE LET self1 == IF Truthy(existing_route)
                         THEN delete_route(self, existing_route.organization,
                                           existing_route.namespace,
                                           remote_agent).self
                         ELSE self
            IN [self |-> insert_route(self1, organization, namespace, remote_agent),
                raised |-> "none",
                existing_route |-> existing_route]

\* get_routes_by_organization, lines 157-160: routes.extend(...) over the
\* namespace dicts.
RECURSIVE extend_all(_)
extend_all(namespace_dicts) ==
    IF namespace_dicts = << >> THEN << >>
    ELSE DictValues(Head(namespace_dicts)) \o extend_all(Tail(namespace_dicts))

\* A get_routes_by_organization that returns inside its loop, after the first
\* namespace.
get_routes_by_organization_one_namespace(self, organization) ==
    IF organization \notin DOMAIN self.routes_by_organization_and_namespace
    THEN << >>
    ELSE DictValues(Head(DictValues(
             self.routes_by_organization_and_namespace[organization])))

\* RouteManager.get_routes_by_organization
get_routes_by_organization(self, organization) ==
    IF organization \notin DOMAIN self.routes_by_organization_and_namespace
    THEN << >>
    ELSE extend_all(DictValues(
             self.routes_by_organization_and_namespace[organization]))

\* RouteManager._organization_namespace_exists
organization_namespace_exists(self, organization, namespace) ==
    /\ organization \in DOMAIN self.routes_by_organization_and_namespace
    /\ namespace \in DOMAIN self.routes_by_organization_and_namespace[organization]

\* RouteManager.get_routes_by_organization_namespace
get_routes_by_organization_namespace(self, organization, namespace) ==
    IF ~organization_namespace_exists(self, organization, namespace)
    THEN << >>
    ELSE DictValues(
             self.routes_by_organization_and_namespace[organization][namespace])

\* RouteManager.get_route_by_remote_agent
get_route_by_remote_agent(self, remote_agent) ==
    LET route_info == DictGet(self.routes_by_remote_agent, remote_agent)
    IN IF Truthy(route_info) /\ ~IsRouteInfo(route_info) THEN None ELSE route_info

\* A route_exists that compares the organization only.
route_exists_any_namespace(self, organization, namespace, remote_agent) ==
    LET route_info == DictGet(self.routes_by_remote_agent, remote_agent)
    IN IF ~Truthy(route_info) \/ ~IsRouteInfo(route_info)
       THEN FALSE
       ELSE route_info.organization = organization

\* RouteManager.route_exists
route_exists(self, organization, namespace, remote_agent) ==
    LET route_info == DictGet(self.routes_by_remote_agent, remote_agent)
    IN IF ~Truthy(route_info) \/ ~IsRouteInfo(route_info)
       THEN FALSE
       ELSE /\ route_info.organization = organization
            /\ route_info.namespace = namespace

\* ------------------------------------------------------------------- calls

\* The record of a call: what was called with which arguments, where the call
\* stands (pc: "done", or the await it is suspended at), how its transport
\* call ended (transport: "none" when it makes none, "pending", "returned",
\* "raised"), what it returned (ret: "None", "True", "False") and what it
\* raised ("none" when it returned).
Call(op, organization, namespace, remote_agent, pc, transport, ret, raised, existing_route) ==
    [op |-> op, organization |-> organization, namespace |-> namespace,
     remote_agent |-> remote_agent, pc |-> pc, transport |-> transport,
     ret |-> ret, raised |-> raised, existing_route |-> existing_route]

PyBool(b) == IF b THEN "True" ELSE "False"

Init ==
    /\ routes_by_remote_agent = RouteManagerInit.routes_by_remote_agent
    /\ routes_by_organization_and_namespace =
           RouteManagerInit.routes_by_organization_and_namespace
    /\ gateway_routes = {}
    /\ last = Call("__init__", "", "", "", "done", "none", "None", "none", None)
    /\ before = RouteManagerInit
    /\ tasks = NoTasks
    /\ now = 0
    /\ cwr = NotCalled
    /\ srv = NotCalled

\* route_manager.add_route(organization, namespace, remote_agent)
AddRoute(organization, namespace, remote_agent) ==
    LET r == add_route(Self, organization, namespace, remote_agent)
    IN /\ last.pc = "done"
       /\ routes_by_remote_agent' = r.self.routes_by_remote_agent
       /\ routes_by_organization_and_namespace' =
              r.self.routes_by_organization_and_namespace
       /\ last' = Call("add_route", organization, namespace, remote_agent,
                       "done", "none", "None", r.raised, r.existing_route)
       /\ before' = Self
       /\ UNCHANGED <<gateway_routes, now, cwr, srv, tasks>>

\* route_manager.delete_route(organization, namespace, remote_agent)
DeleteRoute(organization, namespace, remote_agent) ==
    LET r == delete_route(Self, organization, namespace, remote_agent)
    IN /\ last.pc = "done"
       /\ routes_by_remote_agent' = r.self.routes_by_remote_agent
       /\ routes_by_organization_and_namespace' =
              r.self.routes_by_organization_and_namespace
       /\ last' = Call("delete_route", organization, namespace, remote_agent,
                       "done", "none", PyBool(r.ret), "none", None)
       /\ before' = Self
       /\ UNCHANGED <<gateway_routes, now, cwr, srv, tasks>>

Next ==
    \E organization \in Organizations, namespace \in Namespaces,
       remote_agent \in Agents :
        \/ AddRoute(organization, namespace, remote_agent)
        \/ DeleteRoute(organization, namespace, remote_agent)

Spec == Init /\ [][Next]_vars

\* -------------------------------------------------------- GatewayContainer

\* The transport's view of one route.
RouteKey(organization, namespace, remote_agent) ==
    <<organization, namespace, remote_agent>>

\* A register_route that calls add_route whatever set_route did.
register_route_resume_always(self, organization, namespace, remote_agent, set_route_returned) ==
    LET r == add_route(self, organization, namespace, remote_agent)
    IN [self |-> r.self,
        raised |-> IF set_route_returned THEN r.raised ELSE "TransportError",
        existing_route |-> r.existing_route]

\* GatewayContainer.register_route from the point where the awaited set_route
\* ends: add_route when it returned; otherwise (and when add_route raises) the
\* except clause logs and re-raises.
register_route_resume(self, organization, namespace, remote_agent, set_route_returned) ==
    IF set_route_returned
    THEN add_route(self, organization, namespace, remote_agent)
    ELSE [self |-> self, raised |-> "TransportError", existing_route |-> None]

\* A deregister_route that calls delete_route whatever remove_route did.
deregister_route_resume_always(self, organization, namespace, remote_agent, remove_route_returned) ==
    LET r == delete_route(self, organization, namespace, remote_agent)
    IN [self |-> r.self,
        ret |-> IF remove_route_returned THEN PyBool(r.ret) ELSE "None",
        raised |-> IF remove_route_returned THEN "none" ELSE "TransportError"]

\* GatewayContainer.deregister_route from the point where the awaited
\* remove_route ends: return delete_route's result when it returned; otherwise
\* the except clause logs and re-raises.
deregister_route_resume(self, organization, namespace, remote_agent, remove_route_returned) ==
    IF remove_route_returned
    THEN LET r == delete_route(self, organization, namespace, remote_agent)
         IN [self |-> r.self, ret |-> PyBool(r.ret), raised |-> "none"]
    ELSE [self |-> self, ret |-> "None", raised |-> "TransportError"]

\* await gateway_container.register_route(...): up to the await of set_route.
RegisterRouteCall(organization, namespace, remote_agent) ==
    /\ last.pc = "done"
    /\ last' = Call("register_route", organization, namespace, remote_agent,
                    "await_set_route", "pending", "None", "none", None)
    /\ before' = Self
    /\ UNCHANGED <<routes_by_remote_agent, routes_by_organization_and_namespace,
                   gateway_routes, now, cwr, srv, tasks>>

\* register_route resumes: set_route returned (returned = TRUE, the transport
\* holds the route) or raised.
RegisterRouteResume(returned) ==
    LET r == register_route_resume(Self, last.organization, last.namespace,
                                   last.remote_agent, returned)
    IN /\ last.pc = "await_set_route"
       /\ gateway_routes' =
              IF returned
              THEN gateway_routes \cup {RouteKey(last.organization,
                                                 last.namespace,
                                                 last.remote_agent)}
              ELSE gateway_routes
       /\ routes_by_remote_agent' = r.self.routes_by_remote_agent
       /\ routes_by_organization_and_namespace' =
              r.self.routes_by_organization_and_namespace
       /\ last' = [last EXCEPT !.pc = "done",
                               !.transport = IF returned THEN "returned"
                                             ELSE "raised",
                               !.raised = r.raised,
                               !.existing_route = r.existing_route]
       /\ UNCHANGED <<before, now, cwr, srv, tasks>>

SetRouteReturns == RegisterRouteResume(TRUE)
SetRouteRaises == RegisterRouteResume(FALSE)

\* await gateway_container.deregister_route(...): up to the await of
\* remove_route.
DeregisterRouteCall(organization, namespace, remote_agent) ==
    /\ last.pc = "done"
    /\ last' = Call("deregister_route", organization, namespace, remote_agent,
                    "await_remove_route", "pending", "None", "none", None)
    /\ before' = Self
    /\ UNCHANGED <<routes_by_remote_agent, routes_by_organization_and_namespace,
                   gateway_routes, now, cwr, srv, tasks>>

\* deregister_route resumes: remove_route returned (the transport dropped the
\* route) or raised.
DeregisterRouteResume(returned) ==
    LET r == deregister_route_resume(Self, last.organization, last.namespace,
                                     last.remote_agent, returned)
    IN /\ last.pc = "await_remove_route"
       /\ gateway_routes' =
              IF returned
              THEN gateway_routes \ {RouteKey(last.organization,
                                              last.namespace,
                                              last.remote_agent)}
              ELSE gateway_routes
       /\ routes_by_remote_agent' = r.self.routes_by_remote_agent
       /\ routes_by_organization_and_namespace' =
              r.self.routes_by_organization_and_namespace
       /\ last' = [last EXCEPT !.pc = "done",
                               !.transport = IF returned THEN "returned"
                                             ELSE "raised",
                               !.ret = r.ret,
                               !.raised = r.raised]
       /\ UNCHANGED <<before, now, cwr, srv, tasks>>

RemoveRouteReturns == DeregisterRouteResume(TRUE)
RemoveRouteRaises == DeregisterRouteResume(FALSE)

NextGateway ==
    \/ \E organization \in Organizations, namespace \in Namespaces,
          remote_agent \in GatewayAgents :
           \/ RegisterRouteCall(organization, namespace, remote_agent)
           \/ DeregisterRouteCall(organization, namespace, remote_agent)
    \/ SetRouteReturns
    \/ SetRouteRaises
    \/ RemoveRouteReturns
    \/ RemoveRouteRaises

\* The GatewayContainer driven through register_route and deregister_route,
\* one call at a time.
SpecGateway == Init /\ [][NextGateway]_vars

\* ------------------------------------- GatewayContainer, concurrent tasks

\* The routes the concurrent tasks register and deregister: two of one agent
\* under two organizations, one of another agent in the bucket of the first.
TaskRoutes ==
    {<<"org1", "ns1", "agent1">>, <<"org2", "ns1", "agent1">>,
     <<"org1", "ns1", "agent2">>}

\* A task that has called op(organization, namespace, remote_agent) and is
\* suspended at the await of the transport call.  acked is the position of
\* the call among those the transport has answered (0: not answered yet).
Task(op, key) ==
    [pc |-> "await", op |-> op, organization |-> key[1], namespace |-> key[2],
     remote_agent |-> key[3], transport |-> "pending", acked |-> 0,
     ret |-> "None", raised |-> "none"]

TaskKey(task) == RouteKey(task.organization, task.namespace, task.remote_agent)

\* The number of transport calls answered so far.
Acked == Cardinality({t \in TaskIds : /\ tasks[t].pc # "not_started"
                                      /\ tasks[t].transport # "pending"})

\* asyncio.create_task(gateway_container.register_route(...)): the task runs
\* up to the await of set_route.
TaskRegisterRoute(t, key) ==
    /\ tasks[t].pc = "not_started"
    /\ tasks' = [tasks EXCEPT ![t] = Task("register_route", key)]
    /\ UNCHANGED <<routes_by_remote_agent, routes_by_organization_and_namespace,
                   gateway_routes, last, before, now, cwr, srv>>

\* asyncio.create_task(gateway_container.deregister_route(...)): the task
\* runs up to the await of remove_route.
TaskDeregisterRoute(t, key) ==
    /\ tasks[t].pc = "not_started"
    /\ tasks' = [tasks EXCEPT ![t] = Task("deregister_route", key)]
    /\ UNCHANGED <<routes_by_remote_agent, routes_by_organization_and_namespace,
                   gateway_routes, last, before, now, cwr, srv>>

\* The transport carries out the call task t awaits and acknowledges it: the
\* awaited future is done and the task is ready to run.
TransportReturns(t) ==
    /\ tasks[t].pc = "await"
    /\ gateway_routes' = IF tasks[t].op = "register_route"
                         THEN gateway_routes \cup {TaskKey(tasks[t])}
                         ELSE gateway_routes \ {TaskKey(tasks[t])}
    /\ tasks' = [tasks EXCEPT ![t].pc = "ready", ![t].transport = "returned",
                              ![t].acked = Acked + 1]
    /\ UNCHANGED <<routes_by_remote_agent, routes_by_organization_and_namespace,
                   last, before, now, cwr, srv>>

\* The transport call task t awaits fails: the route the transport holds is
\* as before.
TransportRaises(t) ==
    /\ tasks[t].pc = "await"
    /\ tasks' = [tasks EXCEPT ![t].pc = "ready", ![t].transport = "raised",
                              ![t].acked = Acked + 1]
    /\ UNCHANGED <<routes_by_remote_agent, routes_by_organization_and_namespace,
                   gateway_routes, last, before, now, cwr, srv>>

\* The event loop runs task t from its await to its end: add_route or
\* delete_route when the transport call returned, the re-raise otherwise.
\* Nothing is awaited on the way, so that no other task runs in between.
TaskResumes(t) ==
    LET task == tasks[t]
        returned == task.transport = "returned"
        r == IF task.op = "register_route"
             THEN register_route_resume(Self, task.organization,
                                        task.namespace, task.remote_agent,
                                        returned)
             ELSE deregister_route_resume(Self, task.organization,
                                          task.namespace, task.remote_agent,
                                          returned)
    IN /\ task.pc = "ready"
       /\ routes_by_remote_agent' = r.self.routes_by_remote_agent
       /\ routes_by_organization_and_namespace' =
              r.self.routes_by_organization_and_namespace
       /\ tasks' = [tasks EXCEPT ![t].pc = "done",
                                 ![t].raised = r.raised,
                                 ![t].ret = IF task.op = "register_route"
                                            THEN "None" ELSE r.ret]
       /\ UNCHANGED <<gateway_routes, last, before, now, cwr, srv>>

NextConcurrent ==
    \E t \in TaskIds :
        \/ \E key \in TaskRoutes : \/ TaskRegisterRoute(t, key)
                                   \/ TaskDeregisterRoute(t, key)
        \/ TransportReturns(t)
        \/ TransportRaises(t)
        \/ TaskResumes(t)

\* register_route and deregister_route called from tasks of one event loop:
\* the tasks interleave at their awaits of the transport, the transport
\* answers the calls in any order, and the tasks it answered resume in any
\* order.
SpecConcurrent == Init /\ [][NextConcurrent]_vars

\* The transport call answered last of those made for a route ("none": no
\* call for it has returned).
LastAcknowledged(key) ==
    LET answered == {t \in TaskIds : /\ tasks[t].pc # "not_started"
                                     /\ tasks[t].transport = "returned"
                                     /\ TaskKey(tasks[t]) = key}
    IN IF answered = {} THEN "none"
       ELSE LET t == CHOOSE x \in answered :
                         \A y \in answered : tasks[y].acked <= tasks[x].acked
            IN IF tasks[t].op = "register_route" THEN "set_route"
                                                 ELSE "remove_route"

\* ------------------------------------------------------- connect_with_retry

Min(a, b) == IF a <= b THEN a ELSE b

\* A number of seconds, in ticks of time.time().
Seconds(s) == s * TicksPerSecond

\* The three awaits of _connect, in order.
ConnectCalls == {"create_agent", "connect", "subscribe"}

\* A backoff that quadruples.
next_delay_times_four(delay) == Min(delay * 4, Seconds(MaxBackoffSeconds))

\* A delay that doubles without the cap.
next_delay_uncapped(delay) == delay * 2

\* delay = min(delay * 2, 30)
next_delay(delay) == Min(delay * 2, Seconds(MaxBackoffSeconds))

\* while time.time() - start_time < max_duration
loop_condition(c, t) == t - c.start_time < c.max_duration

\* A timeout of the whole budget for every attempt.
remaining_time_whole_budget(c, t) == c.max_duration

\* remaining_time = max_duration - (time.time() - start_time)
remaining_time(c, t) == c.max_duration - (t - c.start_time)

\* What _connect raises when the transport call it awaits raises:
\* create_agent's error as it is, connect's as ValueError, subscribe's as
\* RuntimeError.
connect_raises(call) ==
    CASE call = "create_agent" -> "TransportError"
      [] call = "connect" -> "ValueError"
      [] call = "subscribe" -> "RuntimeError"

\* A loop that is entered again where the TimeoutError is to be raised.
raise_timeout_loops(c) == [c EXCEPT !.pc = "loop"]

\* raise TimeoutError("Failed to connect within the allowed time frame")
raise_timeout(c) == [c EXCEPT !.pc = "raised", !.raised = "TimeoutError"]

\* An attempt whose result is dropped: the loop goes on after a success.
attempt_ended_no_return(c, exception) ==
    [c EXCEPT !.pc = "sleep", !.error = exception]

\* An except clause that lets the RuntimeError of subscribe through.
attempt_ended_runtime_error_escapes(c, exception) ==
    CASE exception = "none" -> [c EXCEPT !.pc = "returned", !.ret = c.conn_id]
      [] exception = "RuntimeError" ->
             [c EXCEPT !.pc = "raised", !.raised = exception]
      [] OTHER -> [c EXCEPT !.pc = "sleep", !.error = exception]

\* The end of one asyncio.wait_for(self._connect(...)): its value is returned
\* (exception = "none"), or the exception is caught by `except Exception`,
\* which goes on to the backoff sleep.
attempt_ended(c, exception) ==
    IF exception = "none"
    THEN [c EXCEPT !.pc = "returned", !.ret = c.conn_id]
    ELSE [c EXCEPT !.pc = "sleep", !.error = exception]

\* A loop that makes its first attempt before it tests the budget.
while_test_attempt_first(c, t) ==
    IF c.attempts = 0
    THEN [c EXCEPT !.pc = "create_agent", !.deadline = t + c.max_duration,
                   !.attempts = 1, !.called = <<"create_agent">>]
    ELSE IF t - c.start_time < c.max_duration
         THEN [c EXCEPT !.pc = "remaining"]
         ELSE [c EXCEPT !.pc = "raised", !.raised = "TimeoutError"]

\* while time.time() - start_time < max_duration: into the body, or out of
\* the loop to the raise.
while_test(c, t) ==
    IF loop_condition(c, t) THEN [c EXCEPT !.pc = "remaining"]
                            ELSE raise_timeout(c)

\* An attempt that takes up _connect at the call the last attempt failed in.
start_attempt_resumes(c, t) ==
    LET step == IF c.called = << >> THEN "create_agent"
                                    ELSE c.called[Len(c.called)]
    IN [c EXCEPT !.pc = step, !.called = <<step>>,
                 !.deadline = t + (c.max_duration - (t - c.start_time)),
                 !.attempts = @ + 1]

\* wait_for(self._connect(agent_container), timeout=remaining_time) starts:
\* a new _connect coroutine runs from its first statement up to its await of
\* create_agent.
start_attempt(c, t) ==
    [c EXCEPT !.pc = "create_agent", !.called = <<"create_agent">>,
              !.deadline = t + remaining_time(c, t),
              !.attempts = @ + 1, !.conn_id = << >>]

\* The frame of connect_with_retry(agent_container, max_duration,
\* initial_delay) when it is called.  Besides the locals of the code
\* (start_time, delay, remaining_time as the deadline of wait_for, conn_id) it
\* records what happened: ret (<<>> or <<connection id>>), raised, the
\* exception of the last failed attempt (error), the number of attempts and
\* of sleeps, the length and end of the last sleep, the time spent inside
\* attempts and between statements, the number of connections the transport
\* opened, the attempt whose subscribe returned (0: none), and the transport
\* calls _connect has made in the attempt started last, in order (called).
ConnectWithRetryFrame(max_duration, initial_delay) ==
    [pc |-> "called", max_duration |-> max_duration,
     initial_delay |-> initial_delay, start_time |-> 0, delay |-> 0,
     deadline |-> 0, conn_id |-> << >>, ret |-> << >>, raised |-> "none",
     error |-> "none", attempts |-> 0, sleeps |-> 0, slept |-> 0,
     sleep_end |-> 0, attempt_time |-> 0, overhead |-> 0, connects |-> 0,
     succeeded |-> 0, called |-> << >>]

InitConnect ==
    /\ routes_by_remote_agent = RouteManagerInit.routes_by_remote_agent
    /\ routes_by_organization_and_namespace =
           RouteManagerInit.routes_by_organization_and_namespace
    /\ gateway_routes = {}
    /\ last = Call("__init__", "", "", "", "done", "none", "None", "none", None)
    /\ before = RouteManagerInit
    /\ tasks = NoTasks
    /\ now = 0
    /\ \E max_duration \in MaxDurations, initial_delay \in InitialDelays :
           cwr = ConnectWithRetryFrame(Seconds(max_duration),
                                       Seconds(initial_delay))
    /\ srv = NotCalled

\* start_time = time.time(); delay = initial_delay
ConnectWithRetryStart ==
    /\ cwr.pc = "called"
    /\ cwr' = [cwr EXCEPT !.pc = "loop", !.start_time = now,
                          !.delay = cwr.initial_delay]
    /\ UNCHANGED <<route_vars, now, srv>>

\* The while test: into the body, or out of the loop to the raise.
WhileTest ==
    /\ cwr.pc = "loop"
    /\ cwr' = while_test(cwr, now)
    /\ UNCHANGED <<route_vars, now, srv>>

\* remaining_time is computed: break, or wait_for(self._connect(...)) starts
\* and _connect runs up to its await of create_agent.
RemainingTime ==
    /\ cwr.pc = "remaining"
    /\ cwr' = IF remaining_time(cwr, now) <= 0
              THEN raise_timeout(cwr)
              ELSE start_attempt(cwr, now)
    /\ UNCHANGED <<route_vars, now, srv>>

\* The transport call _connect awaits returns after d ticks, within the
\* timeout of wait_for.
CallReturns(d) ==
    /\ cwr.pc \in ConnectCalls
    /\ now + d <= cwr.deadline
    /\ now' = now + d
    /\ LET c == [cwr EXCEPT !.attempt_time = @ + d]
       IN cwr' = CASE cwr.pc = "create_agent" ->
                          [c EXCEPT !.pc = "connect",
                                    !.called = Append(@, "connect")]
                   [] cwr.pc = "connect" ->
                          [c EXCEPT !.pc = "subscribe",
                                    !.called = Append(@, "subscribe"),
                                    !.connects = @ + 1,
                                    !.conn_id = <<c.connects + 1>>]
                   [] cwr.pc = "subscribe" ->
                          attempt_ended([c EXCEPT !.succeeded = c.attempts],
                                        "none")
    /\ UNCHANGED <<route_vars, srv>>

\* The transport call _connect awaits raises after d ticks, within the
\* timeout of wait_for.
CallRaises(d) ==
    /\ cwr.pc \in ConnectCalls
    /\ now + d <= cwr.deadline
    /\ now' = now + d
    /\ cwr' = attempt_ended([cwr EXCEPT !.attempt_time = @ + d],
                            connect_raises(cwr.pc))
    /\ UNCHANGED <<route_vars, srv>>

\* The transport call _connect awaits has not ended when the timeout of
\* wait_for expires: wait_for cancels _connect and raises
\* asyncio.TimeoutError.
CallTimesOut ==
    /\ cwr.pc \in ConnectCalls
    /\ now' = cwr.deadline
    /\ cwr' = attempt_ended([cwr EXCEPT !.attempt_time = @ + cwr.deadline - now],
                            "TimeoutError")
    /\ UNCHANGED <<route_vars, srv>>

\* await asyncio.sleep(delay); delay = min(delay * 2, 30)
BackoffSleep ==
    /\ cwr.pc = "sleep"
    /\ now' = now + cwr.delay
    /\ cwr' = [cwr EXCEPT !.pc = "loop", !.sleeps = @ + 1,
                          !.slept = cwr.delay, !.sleep_end = now + cwr.delay,
                          !.delay = next_delay(cwr.delay)]
    /\ UNCHANGED <<route_vars, srv>>

\* The clock advances between two statements of the loop.
TimePasses ==
    /\ cwr.pc \in {"loop", "remaining"}
    /\ cwr.overhead < MaxOverhead
    /\ now' = now + 1
    /\ cwr' = [cwr EXCEPT !.overhead = @ + 1]
    /\ UNCHANGED <<route_vars, srv>>

NextConnect ==
    \/ ConnectWithRetryStart
    \/ WhileTest
    \/ RemainingTime
    \/ \E d \in CallDurations : CallReturns(d)
    \/ \E d \in CallDurations : CallRaises(d)
    \/ CallTimesOut
    \/ BackoffSleep
    \/ TimePasses

\* One call of connect_with_retry against a transport whose calls return,
\* raise or hang.
SpecConnect == InitConnect /\ [][NextConnect]_vars

\* The same, on an event loop that runs what is ready to run: the coroutine
\* takes its next step, a transport call returns or raises, or the timer of
\* wait_for or of asyncio.sleep fires.
SpecConnectFair == SpecConnect /\ WF_vars(NextConnect)

\* Seconds elapsed since start_time, times TicksPerSecond.
Elapsed == now - cwr.start_time

\* ------------------------------------------------------------ start_server

\* JSON values as Python holds them: None above for null, and a tagged
\* record for a str, an int, a list (a sequence) and a dict (a function).
PyStr(s) == [type |-> "str", val |-> s]
PyInt(n) == [type |-> "int", val |-> n]
PyList(s) == [type |-> "list", val |-> s]
PyDict(d) == [type |-> "dict", val |-> d]
TypeOf(v) == IF v = None THEN "NoneType" ELSE v.type

\* bool(v), the test `not v` negates.
truth(v) ==
    CASE TypeOf(v) = "NoneType" -> FALSE
      [] TypeOf(v) = "str" -> v.val # ""
      [] TypeOf(v) = "int" -> v.val # 0
      [] TypeOf(v) = "list" -> Len(v.val) > 0
      [] TypeOf(v) = "dict" -> DOMAIN v.val # {}

\* A str is either a JSON text, known by the value it parses to and by the
\* way it is written ("dumps": as json.dumps writes it; "other": any other
\* spacing or key order), or a text that is not JSON.
JsonText(v, form) == [text |-> "json", value |-> v, form |-> form]
NotJson == [text |-> "not_json"]

\* json.dumps(v)
json_dumps(v) == JsonText(v, "dumps")

\* json.loads(t): the value, or JSONDecodeError.
json_loads(t) ==
    IF t.text = "json"
    THEN [raised |-> "none", value |-> t.value]
    ELSE [raised |-> "JSONDecodeError", value |-> None]

\* str.encode(): the UTF-8 bytes of a text.
encode(t) == [utf8 |-> t]

\* Bytes that are not UTF-8.
InvalidUtf8 == [invalid_utf8 |-> TRUE]

\* bytes.decode("utf8"): the text, or UnicodeDecodeError.
decode(b) ==
    IF "utf8" \in DOMAIN b
    THEN [raised |-> "none", text |-> b.utf8]
    ELSE [raised |-> "UnicodeDecodeError", text |-> NotJson]

\* self.fastapi_app when an app is set.
FastAPIApp == [app |-> "FastAPI"]

\* A key the sender left out of the payload.
Absent == [absent |-> TRUE]

\* The dict holding the keys of c whose value is not Absent.
MakeDict(c) == PyDict([k \in {x \in DOMAIN c : c[x] # Absent} |-> c[k]])

\* The payloads the loop is driven with: every combination of these fields.
AgentIds == {Absent, None, PyStr(""), PyStr("remote_agent")}
RoutePaths == {Absent, PyStr(""), PyStr("/api/v1/runs")}
Inputs ==
    {Absent, PyStr("hello"), PyDict(EmptyDict),
     PyDict([messages |-> PyList(<< >>)]),
     PyDict([messages |-> PyList(<<PyDict([role |-> PyStr("assistant"), content |-> PyStr("hello")])>>)])}
Metadatas == {Absent, PyDict([id |-> PyStr("c303282d")])}
Payloads ==
    {MakeDict(c) : c \in [agent_id : AgentIds, route : RoutePaths,
                          input : Inputs, metadata : Metadatas]}

\* What gateway.receive() delivers: a source and bytes, which are a JSON
\* object, a JSON value that is not an object, a text that is not JSON, or not
\* UTF-8.
Sources == {"src1", "src2"}
Receivable ==
    {encode(json_dumps(p)) : p \in Payloads}
        \cup {encode(json_dumps(PyList(<< >>))), encode(NotJson), InvalidUtf8}

\* How client.post(route, json=payload, headers=headers) ends: with a
\* response (a status code and a body), by raising HTTPException, or by
\* raising another Exception.
Response(status, body) ==
    [kind |-> "response", status |-> status, body |-> body, detail |-> None]
HTTPExceptionRaised(status, detail) ==
    [kind |-> "HTTPException", status |-> status, body |-> NotJson, detail |-> detail]
ExceptionRaised(text) ==
    [kind |-> "Exception", status |-> 0, body |-> NotJson, detail |-> PyStr(text)]

ResponseStatuses == {OK, 201, NOT_FOUND, UNPROCESSABLE_ENTITY, INTERNAL_SERVER_ERROR}
\* The body of a 2xx response: JSON as json.dumps writes it, JSON written
\* otherwise, or no JSON.
ResponseBodies ==
    {JsonText(PyDict([output |-> PyStr("done")]), "dumps"),
     JsonText(PyDict([output |-> PyStr("done")]), "other"),
     NotJson}
\* The body of a 4xx or 5xx response, which process_message does not read.
ErrorBody == JsonText(PyDict([detail |-> PyStr("Not Found")]), "dumps")
HandlerOutcomes ==
    {Response(s, b) : s \in {x \in ResponseStatuses : x < 400},
                      b \in ResponseBodies}
        \cup {Response(s, ErrorBody) : s \in {x \in ResponseStatuses : x >= 400}}
        \cup {HTTPExceptionRaised(s, PyStr("Not Found")) :
                  s \in {NOT_FOUND, UNPROCESSABLE_ENTITY}}
        \cup {ExceptionRaised("boom")}

\* A create_error that leaves the agent_id out.
create_error_without_agent_id(error, code, agent_id) ==
    json_dumps(PyDict([k \in {"message", "error", "agent_id"} |->
                        CASE k = "message" -> error
                          [] k = "error" -> PyInt(code)
                          [] k = "agent_id" -> None]))

\* GatewayContainer.create_error(error, code, agent_id)
create_error(error, code, agent_id) ==
    json_dumps(PyDict([k \in {"message", "error", "agent_id"} |->
                        CASE k = "message" -> error
                          [] k = "error" -> PyInt(code)
                          [] k = "agent_id" -> agent_id]))

\* The rules with the route test ahead of the agent_id test.
first_failing_rule_route_first(fastapi_app, payload) ==
    CASE ~truth(DictGet(payload.val, "route")) -> "route"
      [] ~truth(DictGet(payload.val, "agent_id")) -> "agent_id"
      [] fastapi_app = None -> "fastapi_app"
      [] OTHER -> "none"

\* The first test of process_message that makes it return an error before
\* the handler is called: `not payload.get("agent_id")`, `not route`,
\* `fastapi_app is None`; "none" when all three pass.
first_failing_rule(fastapi_app, payload) ==
    CASE ~truth(DictGet(payload.val, "agent_id")) -> "agent_id"
      [] ~truth(DictGet(payload.val, "route")) -> "route"
      [] fastapi_app = None -> "fastapi_app"
      [] OTHER -> "none"

\* response.raise_for_status() raises (an HTTPStatusError, which is not an
\* HTTPException) for a 4xx or 5xx status.
raise_for_status(response) == response.status >= 400

\* A reply that is the "Unexpected status code" object whatever the status.
response_reply_unexpected_always(response, agent_id) ==
    json_dumps(PyDict([error |-> PyStr("Unexpected status code")]))

\* What process_message returns for a response raise_for_status let through:
\* json.dumps(response.json()) for status 200 (response.json() raises when
\* the body is not JSON, which `except Exception` turns into an error 500),
\* and the "Unexpected status code" object otherwise.
response_reply(response, agent_id) ==
    IF response.status = OK
    THEN IF json_loads(response.body).raised = "none"
         THEN json_dumps(json_loads(response.body).value)
         ELSE create_error(PyStr(json_loads(response.body).raised),
                           INTERNAL_SERVER_ERROR, agent_id)
    ELSE json_dumps(PyDict([error |-> PyStr("Unexpected status code")]))

\* A try block that answers any other Exception with a fixed message.
reinject_generic_message(agent_id, outcome) ==
    CASE outcome.kind = "HTTPException" ->
             create_error(outcome.detail, outcome.status, agent_id)
      [] outcome.kind = "Exception" ->
             create_error(PyStr("Internal Server Error"),
                          INTERNAL_SERVER_ERROR, agent_id)
      [] outcome.kind = "response" ->
             IF raise_for_status(outcome)
             THEN create_error(PyStr("HTTPStatusError"), INTERNAL_SERVER_ERROR,
                               agent_id)
             ELSE response_reply(outcome, agent_id)

\* The try block of process_message: the reply for each way client.post and
\* raise_for_status end.
reinject(agent_id, outcome) ==
    CASE outcome.kind = "HTTPException" ->
             create_error(outcome.detail, outcome.status, agent_id)
      [] outcome.kind = "Exception" ->
             create_error(outcome.detail, INTERNAL_SERVER_ERROR, agent_id)
      [] outcome.kind = "response" ->
             IF raise_for_status(outcome)
             THEN create_error(PyStr("HTTPStatusError"), INTERNAL_SERVER_ERROR,
                               agent_id)
             ELSE response_reply(outcome, agent_id)

\* GatewayContainer.process_message(payload), outcome being how the handler
\* answers if it is called: what is raised, the msg returned and the handler
\* outcome used (None: the handler was not called).
process_message(fastapi_app, payload, outcome) ==
    IF TypeOf(payload) # "dict"
    THEN [raised |-> "AttributeError", msg |-> None, handler |-> None]
    ELSE LET agent_id == DictGet(payload.val, "agent_id")
             rule == first_failing_rule(fastapi_app, payload)
         IN CASE rule = "agent_id" ->
                     [raised |-> "none", handler |-> None,
                      msg |-> create_error(
                                  PyStr("agent_id is required and cannot be empty."),
                                  UNPROCESSABLE_ENTITY, agent_id)]
              [] rule = "route" ->
                     [raised |-> "none", handler |-> None,
                      msg |-> create_error(PyStr("NOT_FOUND"), NOT_FOUND, agent_id)]
              [] rule = "fastapi_app" ->
                     [raised |-> "none", handler |-> None,
                      msg |-> create_error(PyStr("FastAPI app is not available"),
                                           INTERNAL_SERVER_ERROR, agent_id)]
              [] OTHER ->
                     [raised |-> "none", handler |-> outcome,
                      msg |-> reinject(agent_id, outcome)]

\* v has the shape of create_error's object.
IsStructuredError(v) ==
    /\ TypeOf(v) = "dict"
    /\ DOMAIN v.val = {"message", "error", "agent_id"}
    /\ TypeOf(v.val["error"]) = "int"

\* The frame of start_server(agent_container) when it is called, with
\* self.fastapi_app.  Besides the locals of the code (last_src, last_msg,
\* src, payload, msg) it records the handler outcome process_message used
\* (None: handler not called), the arguments of the publish_to call issued
\* for the message, the numbers of messages received, of publish_to calls
\* issued and of replies published, what was raised, the text of the
\* shutdown error, whether the finally block has run, what interrupted the
\* loop (event: "none", "cancelled", "receive_raised", "publish_to_raised"),
\* and of the message before the current one its source and whether its
\* reply was a structured error.
ServerFrame(fastapi_app) ==
    [pc |-> "called", fastapi_app |-> fastapi_app, last_src |-> "",
     last_msg |-> PyStr(""), src |-> "", payload |-> None, msg |-> None,
     handler |-> None, publish_to |-> None, received |-> 0, published |-> 0,
     raised |-> "none", shutdown |-> None, cleanup |-> FALSE,
     publish_calls |-> 0, event |-> "none", prev_src |-> "",
     prev_error |-> FALSE]

InitServer ==
    /\ routes_by_remote_agent = RouteManagerInit.routes_by_remote_agent
    /\ routes_by_organization_and_namespace =
           RouteManagerInit.routes_by_organization_and_namespace
    /\ gateway_routes = {}
    /\ last = Call("__init__", "", "", "", "done", "none", "None", "none", None)
    /\ before = RouteManagerInit
    /\ tasks = NoTasks
    /\ now = 0
    /\ cwr = NotCalled
    /\ \E fastapi_app \in {None, FastAPIApp} : srv = ServerFrame(fastapi_app)

\* A loop that swallows a transport error and receives again.
server_raises_retries(s, exception) ==
    IF exception = "TransportError"
    THEN [s EXCEPT !.pc = "receive"]
    ELSE [s EXCEPT !.pc = "raised", !.raised = exception, !.cleanup = TRUE]

\* An exception leaves start_server: the finally block runs on the way out.
server_raises(s, exception) ==
    [s EXCEPT !.pc = "raised", !.raised = exception, !.cleanup = TRUE]

\* Last seen recorded only after the reply has been published.
record_last_seen_not_yet(s, src, payload) == s

\* Only the source recorded before the reply; the message stays the old one.
record_last_seen_source_only(s, src, payload) == [s EXCEPT !.last_src = src]

\* last_src = src; last_msg = payload
record_last_seen(s, src, payload) ==
    [s EXCEPT !.last_src = src, !.last_msg = payload]

\* A publish_to that is started and not awaited.
publish_to_call_not_awaited(s, msg, src) ==
    [s EXCEPT !.pc = "receive", !.publish_calls = @ + 1,
              !.publish_to = [message |-> encode(msg), destination |-> src]]

\* A publish_to addressed to the source of the message before.
publish_to_call_previous_source(s, msg, src) ==
    [s EXCEPT !.pc = "publish", !.publish_calls = @ + 1,
              !.publish_to = [message |-> encode(msg),
                              destination |-> s.prev_src]]

\* await self.gateway.publish_to(msg.encode(), src): the call is issued and
\* the loop is suspended on it.
publish_to_call(s, msg, src) ==
    [s EXCEPT !.pc = "publish", !.publish_calls = @ + 1,
              !.publish_to = [message |-> encode(msg), destination |-> src]]

\* A loop that ends once it has published an error reply.
publish_to_returned_stops_on_error(s) ==
    IF IsStructuredError(json_loads(s.msg).value)
    THEN [s EXCEPT !.pc = "returned", !.published = @ + 1]
    ELSE [s EXCEPT !.pc = "receive", !.published = @ + 1]

\* publish_to has returned: `while True` takes the loop back to receive.
publish_to_returned(s) == [s EXCEPT !.pc = "receive", !.published = @ + 1]

\* A cancellation that ends the loop without an error.
on_cancelled_swallowed(s) ==
    [s EXCEPT !.pc = "returned", !.cleanup = TRUE]

\* except asyncio.exceptions.CancelledError: raise RuntimeError(f"Shutdown
\* server. Last source: {last_src}, Last message: {last_msg}").
on_cancelled(s) ==
    server_raises([s EXCEPT !.shutdown = [last_src |-> s.last_src,
                                          last_msg |-> s.last_msg]],
                  "RuntimeError")

\* start_server up to its first await of gateway.receive().
StartServer ==
    /\ srv.pc = "called"
    /\ srv' = [srv EXCEPT !.pc = "receive"]
    /\ UNCHANGED <<route_vars, now, cwr>>

\* gateway.receive() returns (src, recv): the loop decodes recv, records
\* last_src and last_msg, runs process_message (whose handler call, if made,
\* ends as outcome) and issues publish_to(msg.encode(), src).
Receive(src, recv, outcome) ==
    /\ srv.pc = "receive"
    /\ srv.received < MaxMessages
    /\ LET text == decode(recv)
           loaded == json_loads(text.text)
           payload == loaded.value
           r == process_message(srv.fastapi_app, payload, outcome)
           got == [srv EXCEPT !.received = @ + 1, !.src = src,
                              !.prev_src = srv.src,
                              !.prev_error =
                                  /\ srv.received > 0
                                  /\ IsStructuredError(json_loads(srv.msg).value)]
           seen == record_last_seen([got EXCEPT !.payload = payload], src,
                                    payload)
       IN srv' = CASE text.raised # "none" -> server_raises(got, text.raised)
                   [] loaded.raised # "none" -> server_raises(got, loaded.raised)
                   [] r.raised # "none" ->
                          server_raises([seen EXCEPT !.msg = None,
                                                     !.handler = None,
                                                     !.publish_to = None],
                                        r.raised)
                   [] OTHER ->
                          publish_to_call([seen EXCEPT !.msg = r.msg,
                                                       !.handler = r.handler],
                                          r.msg, src)
    /\ UNCHANGED <<route_vars, now, cwr>>

\* gateway.receive() raises a transport error.
ReceiveRaises ==
    /\ srv.pc = "receive"
    /\ srv' = server_raises([srv EXCEPT !.event = "receive_raised"],
                            "TransportError")
    /\ UNCHANGED <<route_vars, now, cwr>>

\* gateway.publish_to(...) returns: the loop goes back to receive.
PublishReturns ==
    /\ srv.pc = "publish"
    /\ srv' = publish_to_returned(srv)
    /\ UNCHANGED <<route_vars, now, cwr>>

\* gateway.publish_to(...) raises a transport error.
PublishRaises ==
    /\ srv.pc = "publish"
    /\ srv' = server_raises([srv EXCEPT !.event = "publish_to_raised"],
                            "TransportError")
    /\ UNCHANGED <<route_vars, now, cwr>>

\* The task is cancelled while it awaits receive or publish_to:
\* CancelledError is caught and RuntimeError raised from it.
ServerCancelled ==
    /\ srv.pc \in {"receive", "publish"}
    /\ srv' = on_cancelled([srv EXCEPT !.event = "cancelled"])
    /\ UNCHANGED <<route_vars, now, cwr>>

\* process_message gets as far as calling the handler for these bytes.
calls_handler(fastapi_app, recv) ==
    /\ decode(recv).raised = "none"
    /\ json_loads(decode(recv).text).raised = "none"
    /\ TypeOf(json_loads(decode(recv).text).value) = "dict"
    /\ first_failing_rule(fastapi_app, json_loads(decode(recv).text).value) = "none"

\* The handler outcomes to tell apart for these bytes: all of them when the
\* handler is called, one (never used) when it is not.
OutcomesFor(fastapi_app, recv) ==
    IF calls_handler(fastapi_app, recv)
    THEN HandlerOutcomes
    ELSE {ExceptionRaised("boom")}

NextServer ==
    \/ StartServer
    \/ \E src \in Sources, recv \in Receivable :
           \E outcome \in OutcomesFor(srv.fastapi_app, recv) :
               Receive(src, recv, outcome)
    \/ ReceiveRaises
    \/ PublishReturns
    \/ PublishRaises
    \/ ServerCancelled

\* One start_server loop fed by the transport, with a handler that answers
\* in any way.
SpecServer == InitServer /\ [][NextServer]_vars

\* The locals of the loop describe a message process_message returned a
\* reply for: its publish_to is awaited, or has returned.
Handled ==
    \/ srv.pc = "publish"
    \/ srv.pc = "receive" /\ srv.received > 0

\* The value the published bytes parse to.
Reply == json_loads(decode(srv.publish_to.message).text).value

\* The handler was called for the message and ended as a response.
HandlerResponded == srv.handler # None /\ srv.handler.kind = "response"

\* ------------------------------------------------------- observed registry

\* The triples of the RouteInfo values held in the flat by-agent index.
FlatTriples(self) ==
    {<<self.routes_by_remote_agent[a].organization,
       self.routes_by_remote_agent[a].namespace,
       self.routes_by_remote_agent[a].remote_agent>> :
        a \in DOMAIN self.routes_by_remote_agent}

\* The triples reachable through organization -> namespace -> agent.
NestedTriples(self) ==
    LET nested == self.routes_by_organization_and_namespace
    IN UNION {UNION {{<<o, n, a>> : a \in DOMAIN nested[o][n]} :
                     n \in DOMAIN nested[o]} : o \in DOMAIN nested}

\* The flat-index routes of an organization, and of one of its namespaces.
FlatRoutesOf(self, organization) ==
    {self.routes_by_remote_agent[a] :
        a \in {x \in DOMAIN self.routes_by_remote_agent :
                  self.routes_by_remote_agent[x].organization = organization}}

FlatRoutesIn(self, organization, namespace) ==
    {r \in FlatRoutesOf(self, organization) : r.namespace = namespace}

\* Strings a query may be made with, one of them never used in a route.
QueryOrganizations == Organizations \cup {"unknown_org"}
QueryNamespaces == Namespaces \cup {"unknown_ns"}

\* The last call replaced a route stored under another organization/namespace.
Overwrote ==
    /\ last.op = "add_route"
    /\ last.existing_route # None
    /\ <<last.existing_route.organization, last.existing_route.namespace>>
           # <<last.organization, last.namespace>>

\* ----------------------------------------------------------------- claims

\* C1: after any sequence of add_route and delete_route calls, the triples
\* reachable through the nested index are exactly the triples of the RouteInfo
\* values of the flat index.
C1_IndexConsistency == NestedTriples(Self) = FlatTriples(Self)

\* C1 witness: an overwrite has just happened in a registry holding two routes.
C1_Witness ==
    /\ Overwrote
    /\ Cardinality(DOMAIN routes_by_remote_agent) >= 2
    /\ DOMAIN before.routes_by_remote_agent = DOMAIN routes_by_remote_agent

\* C2 (as claimed): whenever no register_route/deregister_route call is in
\* progress, the triples held by the RouteManager are exactly the triples the
\* transport acknowledged as set and has not since acknowledged as removed.
C2_RegistryMatchesTransport ==
    last.pc = "done" => FlatTriples(Self) = gateway_routes

\* C3: add_route(orgA, nsA, a) directly followed by add_route(orgB, nsB, a)
\* with (orgA, nsA) # (orgB, nsB) leaves exactly one route for a, reported by
\* get_route_by_remote_agent under (orgB, nsB) and listed by
\* get_routes_by_organization_namespace(orgB, nsB), and none under (orgA, nsA).
C3_Step ==
    (/\ last.op = "add_route"
     /\ last'.op = "add_route"
     /\ last'.remote_agent = last.remote_agent
     /\ <<last.organization, last.namespace>>
            # <<last'.organization, last'.namespace>>)
    => LET a == last'.remote_agent
           new == RouteInfo(last'.organization, last'.namespace, a)
       IN /\ last'.raised = "none"
          /\ Cardinality({t \in NestedTriples(Self') : t[3] = a}) = 1
          /\ Cardinality({t \in FlatTriples(Self') : t[3] = a}) = 1
          /\ get_route_by_remote_agent(Self', a) = new
          /\ new \in Range(get_routes_by_organization_namespace(
                               Self', last'.organization, last'.namespace))
          /\ \A r \in Range(get_routes_by_organization_namespace(
                                Self', last.organization, last.namespace)) :
                 r.remote_agent # a

C3_OverwriteAtomicity == [][C3_Step]_vars

\* C3 witness: the second add_route found the agent's route under the other
\* organization/namespace and other routes are stored too.
C3_Witness ==
    /\ Overwrote
    /\ Cardinality(DOMAIN routes_by_remote_agent) >= 2

\* C4: delete_route(o, n, a) while a is stored under another organization or
\* namespace returns False and leaves both indexes as they were.
C4_DeleteGuard ==
    (/\ last.op = "delete_route"
     /\ last.remote_agent \in DOMAIN before.routes_by_remote_agent
     /\ \/ before.routes_by_remote_agent[last.remote_agent].organization
               # last.organization
        \/ before.routes_by_remote_agent[last.remote_agent].namespace
               # last.namespace)
    => /\ last.ret = "False"
       /\ Self = before
       /\ get_route_by_remote_agent(Self, last.remote_agent)
              = before.routes_by_remote_agent[last.remote_agent]

\* C4 witness: a delete_route with the stored namespace but another
\* organization has been made.
C4_Witness ==
    /\ last.op = "delete_route"
    /\ last.remote_agent \in DOMAIN before.routes_by_remote_agent
    /\ before.routes_by_remote_agent[last.remote_agent].organization
           # last.organization
    /\ before.routes_by_remote_agent[last.remote_agent].namespace
           = last.namespace

\* C5: the nested index holds no empty organization and no empty namespace;
\* so after delete_route removed the last route of (org, ns) the namespace
\* query is empty and the organization query lists no route of that namespace.
C5_NoEmptyContainers ==
    LET nested == routes_by_organization_and_namespace
    IN /\ \A o \in DOMAIN nested :
              /\ DOMAIN nested[o] # {}
              /\ \A n \in DOMAIN nested[o] : DOMAIN nested[o][n] # {}
       /\ (/\ last.op = "delete_route"
           /\ last.ret = "True"
           /\ FlatRoutesIn(Self, last.organization, last.namespace) = {})
          => /\ get_routes_by_organization_namespace(
                    Self, last.organization, last.namespace) = << >>
             /\ \A r \in Range(get_routes_by_organization(
                                   Self, last.organization)) :
                    r.namespace # last.namespace

\* C5 witness: delete_route removed the last route of a namespace whose
\* organization still holds another namespace.
C5_Witness ==
    /\ last.op = "delete_route"
    /\ last.ret = "True"
    /\ FlatRoutesIn(Self, last.organization, last.namespace) = {}
    /\ FlatRoutesOf(Self, last.organization) # {}

\* C6: every remote_agent appears under at most one (organization, namespace)
\* bucket of the nested index, and the RouteInfo under flat key a has
\* remote_agent a.
C6_OneRoutePerAgent ==
    /\ \A a \in Agents :
           Cardinality({t \in NestedTriples(Self) : t[3] = a}) <= 1
    /\ \A a \in DOMAIN routes_by_remote_agent :
           routes_by_remote_agent[a].remote_agent = a

\* C6 witness: an agent was moved to another bucket while all agents have a
\* route.
C6_Witness ==
    /\ Overwrote
    /\ DOMAIN routes_by_remote_agent = Agents

\* C7: delete_route(o, n, a) returns True exactly when a was stored under
\* (o, n) just before; then a is gone from both indexes; for an unknown a it
\* returns False, raises nothing and changes nothing.
C7_DeleteResult ==
    last.op = "delete_route" =>
        LET a == last.remote_agent
            stored == /\ a \in DOMAIN before.routes_by_remote_agent
                      /\ before.routes_by_remote_agent[a].organization
                             = last.organization
                      /\ before.routes_by_remote_agent[a].namespace
                             = last.namespace
        IN /\ last.ret = "True" <=> stored
           /\ last.ret \in {"True", "False"}
           /\ last.ret = "True" =>
                  /\ a \notin DOMAIN routes_by_remote_agent
                  /\ {t \in NestedTriples(Self) : t[3] = a} = {}
                  /\ get_route_by_remote_agent(Self, a) = None
           /\ a \notin DOMAIN before.routes_by_remote_agent =>
                  /\ last.ret = "False"
                  /\ last.raised = "none"
                  /\ Self = before

\* C7 witness: a delete_route returned True and left other routes stored.
C7_Witness ==
    /\ last.op = "delete_route"
    /\ last.ret = "True"
    /\ routes_by_remote_agent # EmptyDict

\* C8: add_route(o, n, a) does not raise, and right after it
\* get_route_by_remote_agent(a) is RouteInfo(o, n, a) and route_exists(o', n', a)
\* is true exactly for (o', n') = (o, n).
C8_AddRouteResult ==
    last.op = "add_route" =>
        /\ last.raised = "none"
        /\ get_route_by_remote_agent(Self, last.remote_agent)
               = RouteInfo(last.organization, last.namespace, last.remote_agent)
        /\ \A o \in QueryOrganizations, n \in QueryNamespaces :
               route_exists(Self, o, n, last.remote_agent)
                   <=> (o = last.organization /\ n = last.namespace)

\* C8 witness: add_route moved an agent that had a route in the same
\* organization under another namespace.
C8_Witness ==
    /\ Overwrote
    /\ last.existing_route.organization = last.organization

\* C9: get_routes_by_organization(o) lists exactly the flat-index routes of
\* organization o, and get_routes_by_organization_namespace(o, n) exactly those
\* of organization o and namespace n, each once; nothing for unknown o or n.
C9_QueriesMatchFlatIndex ==
    \A o \in QueryOrganizations :
        /\ Range(get_routes_by_organization(Self, o)) = FlatRoutesOf(Self, o)
        /\ Len(get_routes_by_organization(Self, o))
               = Cardinality(FlatRoutesOf(Self, o))
        /\ \A n \in QueryNamespaces :
               /\ Range(get_routes_by_organization_namespace(Self, o, n))
                      = FlatRoutesIn(Self, o, n)
               /\ Len(get_routes_by_organization_namespace(Self, o, n))
                      = Cardinality(FlatRoutesIn(Self, o, n))

\* C9 witness: one organization holds routes in two namespaces and the other
\* organization holds a route as well.
C9_Witness ==
    \E o \in Organizations :
        /\ \A n \in Namespaces : FlatRoutesIn(Self, o, n) # {}
        /\ \E p \in Organizations \ {o} : FlatRoutesOf(Self, p) # {}

\* C10: register_route leaves the registry alone until set_route has ended;
\* if set_route raised, the error is raised to the caller and the RouteManager
\* is as before the call; if it returned, register_route returns with
\* (o, n, a) in the registry.
C10_RegisterRoute ==
    last.op = "register_route" =>
        /\ last.pc = "await_set_route" => Self = before
        /\ (last.pc = "done" /\ last.transport = "raised") =>
               /\ last.raised = "TransportError"
               /\ Self = before
        /\ (last.pc = "done" /\ last.transport = "returned") =>
               /\ last.raised = "none"
               /\ route_exists(Self, last.organization, last.namespace,
                               last.remote_agent)

\* C10 witness: set_route raised for an agent that has a route under another
\* organization.
C10_Witness ==
    /\ last.op = "register_route"
    /\ last.pc = "done"
    /\ last.transport = "raised"
    /\ last.remote_agent \in DOMAIN routes_by_remote_agent
    /\ routes_by_remote_agent[last.remote_agent].organization
           # last.organization

\* C11: deregister_route leaves the registry alone until remove_route has
\* ended; if remove_route raised, the error is raised to the caller and the
\* RouteManager is as before the call; if it returned, deregister_route returns
\* what delete_route(o, n, a) returns: True, with the route removed, exactly
\* when a was stored under (o, n), and False with nothing changed otherwise.
C11_DeregisterRoute ==
    last.op = "deregister_route" =>
        LET stored == route_exists(before, last.organization, last.namespace,
                                   last.remote_agent)
        IN /\ last.pc = "await_remove_route" => Self = before
           /\ (last.pc = "done" /\ last.transport = "raised") =>
                  /\ last.raised = "TransportError"
                  /\ last.ret = "None"
                  /\ Self = before
           /\ (last.pc = "done" /\ last.transport = "returned") =>
                  /\ last.raised = "none"
                  /\ last.ret = PyBool(stored)
                  /\ stored => last.remote_agent \notin DOMAIN routes_by_remote_agent
                  /\ ~stored => Self = before

\* C11 witness: remove_route raised for a route the registry holds.
C11_Witness ==
    /\ last.op = "deregister_route"
    /\ last.pc = "done"
    /\ last.transport = "raised"
    /\ route_exists(Self, last.organization, last.namespace, last.remote_agent)

C13_TimeoutAfterRetries ==
    /\ cwr.raised \in {"none", "TimeoutError"}
    /\ cwr.pc = "raised" =>
           /\ cwr.raised = "TimeoutError"
           /\ cwr.ret = << >>
           /\ cwr.succeeded = 0
           /\ Elapsed >= cwr.max_duration
    /\ cwr.pc = "sleep" =>
           /\ cwr.raised = "none"
           /\ cwr.ret = << >>
           /\ cwr.error \in {"TransportError", "ValueError", "RuntimeError",
                              "TimeoutError"}
    /\ cwr.pc = "returned" => cwr.raised = "none"

\* C13 witness: TimeoutError was raised after three attempts or more, the
\* last of which failed in subscribe.
C13_Witness ==
    /\ cwr.pc = "raised"
    /\ cwr.attempts >= 3
    /\ cwr.error = "RuntimeError"

\* C14 (as claimed): whatever initial_delay is and however many attempts
\* failed, no backoff sleep is longer than 30 seconds.
C14_DelayCapped ==
    cwr.sleeps > 0 => cwr.slept <= Seconds(MaxBackoffSeconds)

\* C15 (as claimed): every backoff sleep ends no later than start_time +
\* max_duration, and TimeoutError is raised with an elapsed time (less the
\* time that passed between statements) of at most max_duration.
C15_NeverSleepsPastBudget ==
    /\ cwr.sleeps > 0 => cwr.sleep_end <= cwr.start_time + cwr.max_duration
    /\ cwr.pc = "raised" => Elapsed - cwr.overhead <= cwr.max_duration

\* C16: with initial_delay = 1 s and max_duration = 2 s, when every attempt
\* failed at once (no time spent inside the attempts), TimeoutError is raised
\* at an elapsed time of at least 1.8 s and at most 4 s.
C16_BackoffTiming ==
    ( /\ cwr.pc = "raised"
      /\ cwr.initial_delay = Seconds(1)
      /\ cwr.max_duration = Seconds(2)
      /\ cwr.attempt_time = 0 )
        => /\ 10 * Elapsed >= 18 * TicksPerSecond
           /\ Elapsed <= Seconds(4)

\* C16 witness: the timeout was raised after two attempts that failed at
\* once and the two sleeps that followed them.
C16_Witness ==
    /\ cwr.pc = "raised"
    /\ cwr.initial_delay = Seconds(1)
    /\ cwr.max_duration = Seconds(2)
    /\ cwr.attempt_time = 0
    /\ cwr.attempts = 2
    /\ cwr.sleeps = 2

\* C17: for every message whose agent_id is missing, null or empty, whatever
\* its route, input and metadata are, the reply published to its source is
\* the structured error of the agent_id rule, with status 422, and the
\* handler was not called.
C17_MissingAgentId ==
    (Handled /\ ~truth(DictGet(srv.payload.val, "agent_id"))) =>
        /\ IsStructuredError(Reply)
        /\ Reply.val["error"] = PyInt(UNPROCESSABLE_ENTITY)
        /\ Reply.val["message"] = PyStr("agent_id is required and cannot be empty.")
        /\ srv.handler = None
        /\ srv.publish_to.destination = srv.src

\* C17 witness: the reply was published for a message with neither agent_id
\* nor route, on a container without an app: all three rules would fail.
C17_Witness ==
    /\ srv.pc = "receive"
    /\ srv.published >= 1
    /\ "agent_id" \notin DOMAIN srv.payload.val
    /\ "route" \notin DOMAIN srv.payload.val
    /\ srv.fastapi_app = None

\* C18: for every message with a non-empty agent_id whose route is missing
\* or empty, the reply published to its source is a structured error with
\* status 404 and that agent_id, and the handler was not called.
C18_MissingRoute ==
    ( /\ Handled
      /\ truth(DictGet(srv.payload.val, "agent_id"))
      /\ ~truth(DictGet(srv.payload.val, "route")) ) =>
        /\ IsStructuredError(Reply)
        /\ Reply.val["error"] = PyInt(NOT_FOUND)
        /\ Reply.val["agent_id"] = DictGet(srv.payload.val, "agent_id")
        /\ srv.handler = None
        /\ srv.publish_to.destination = srv.src

\* C18 witness: the reply was published for a message from "remote_agent"
\* with an empty route.
C18_Witness ==
    /\ srv.pc = "receive"
    /\ srv.published >= 1
    /\ DictGet(srv.payload.val, "agent_id") = PyStr("remote_agent")
    /\ DictGet(srv.payload.val, "route") = PyStr("")

C20_HandlerErrorStatus ==
    ( /\ Handled
      /\ srv.handler # None
      /\ \/ srv.handler.kind = "response" /\ srv.handler.status >= 400
         \/ srv.handler.kind = "HTTPException" ) =>
        /\ IsStructuredError(Reply)
        /\ Reply.val["error"] = PyInt(srv.handler.status)
        /\ Reply.val["agent_id"] = DictGet(srv.payload.val, "agent_id")

C22_ErrorReplyKeepsLoop ==
    /\ ( /\ srv.published >= 1
         /\ srv.published = srv.received
         /\ srv.event = "none"
         /\ IsStructuredError(json_loads(srv.msg).value) ) =>
            /\ srv.pc = "receive"
            /\ srv.raised = "none"
    /\ srv.prev_error => srv.received >= 2

\* C22 witness: the message after one answered with an error got to the
\* handler, which answered 200, and its reply is being published.
C22_Witness ==
    /\ srv.pc = "publish"
    /\ srv.received = 2
    /\ srv.prev_error
    /\ HandlerResponded
    /\ srv.handler.status = OK

\* C23: messages are handled one at a time: receive is awaited only when
\* every message received has had its reply published, and while a reply is
\* being published it is the reply of the one message received last.
C23_OneAtATime ==
    /\ srv.published <= srv.received
    /\ srv.received <= srv.published + 1
    /\ srv.publish_calls \in {srv.published, srv.published + 1}
    /\ srv.pc = "receive" =>
           /\ srv.published = srv.received
           /\ srv.publish_calls = srv.published
    /\ srv.pc = "publish" =>
           /\ srv.received = srv.published + 1
           /\ srv.publish_calls = srv.received

\* C23 witness: the reply of the second message is being published after
\* the reply of the first has been.
C23_Witness ==
    /\ srv.pc = "publish"
    /\ srv.received = 2
    /\ srv.published = 1

\* C24: whenever start_server is cancelled, at receive or at publish_to, it
\* has raised RuntimeError with the last-seen source and message in its
\* text, and the finally block has run; the shutdown error has no other
\* cause.
C24_CancelRaisesShutdown ==
    /\ srv.event = "cancelled" =>
           /\ srv.pc = "raised"
           /\ srv.raised = "RuntimeError"
           /\ srv.cleanup
           /\ srv.shutdown = [last_src |-> srv.last_src, last_msg |-> srv.last_msg]
    /\ srv.shutdown # None => srv.event = "cancelled"

\* C24 witness: cancelled at receive, after the reply of a message had been
\* published.
C24_Witness ==
    /\ srv.event = "cancelled"
    /\ srv.received = 1
    /\ srv.published = 1

\* C25: when the loop is cancelled after a message was received, the text of
\* the shutdown error holds the source and the payload of the message
\* received last, also when its reply had not been published.
C25_ShutdownCarriesLastReceived ==
    (srv.event = "cancelled" /\ srv.received >= 1) =>
        /\ srv.shutdown # None
        /\ srv.shutdown.last_src = srv.src
        /\ srv.shutdown.last_msg = srv.payload

\* C25 witness: cancelled while the reply of the second message, which came
\* from another source than the first, was being published.
C25_Witness ==
    /\ srv.event = "cancelled"
    /\ srv.received = 2
    /\ srv.published = 1
    /\ srv.prev_src # srv.src

\* C26: a transport error raised by receive or by publish_to leaves
\* start_server as it is, after the finally block: it is neither caught as a
\* shutdown nor answered with a reply, and no receive or publish_to call
\* follows it.
C26_TransportErrorFatal ==
    srv.event \in {"receive_raised", "publish_to_raised"} =>
        /\ srv.pc = "raised"
        /\ srv.raised = "TransportError"
        /\ srv.cleanup
        /\ srv.shutdown = None
        /\ srv.event = "receive_raised" =>
               /\ srv.published = srv.received
               /\ srv.publish_calls = srv.received
        /\ srv.event = "publish_to_raised" =>
               /\ srv.published = srv.received - 1
               /\ srv.publish_calls = srv.received

\* C26 witness: publish_to raised for the second message.
C26_Witness ==
    /\ srv.event = "publish_to_raised"
    /\ srv.received = 2

\* C27 (as claimed): for every message with non-empty agent_id and route, if
\* input is not a dict the reply is the structured error 500 "The 'input'
\* field should be a dictionary.", otherwise if input.messages is not a
\* non-empty list it is the structured error 500 "The 'input.messages' field
\* should be a non-empty list."; the handler is not called in either case.
C27_InputValidation ==
    ( /\ Handled
      /\ truth(DictGet(srv.payload.val, "agent_id"))
      /\ truth(DictGet(srv.payload.val, "route")) ) =>
        LET input == DictGet(srv.payload.val, "input")
            messages == IF TypeOf(input) = "dict"
                        THEN DictGet(input.val, "messages")
                        ELSE None
        IN /\ TypeOf(input) # "dict" =>
                  /\ srv.handler = None
                  /\ IsStructuredError(Reply)
                  /\ Reply.val["error"] = PyInt(INTERNAL_SERVER_ERROR)
                  /\ Reply.val["message"] =
                         PyStr("The 'input' field should be a dictionary.")
           /\ (TypeOf(input) = "dict" /\ ~(TypeOf(messages) = "list" /\ truth(messages))) =>
                  /\ srv.handler = None
                  /\ IsStructuredError(Reply)
                  /\ Reply.val["error"] = PyInt(INTERNAL_SERVER_ERROR)
                  /\ Reply.val["message"] =
                         PyStr("The 'input.messages' field should be a non-empty list.")

\* C28 (as claimed): bytes that are not UTF-8, a text that is not JSON and a
\* JSON value that is not an object never make start_server raise: they are
\* answered like a validation error and the loop goes on.
C28_MalformedIsValidationError ==
    srv.raised \notin {"UnicodeDecodeError", "JSONDecodeError", "AttributeError"}

\* C29 (as claimed): every reply that is not the passed-through body of a
\* 200 response has the structured error shape: a str message, an int error
\* and the agent_id of the message (or null).
C29_FailureReplyShape ==
    ( /\ Handled
      /\ ~( /\ HandlerResponded
            /\ srv.handler.status = OK
            /\ srv.handler.body # NotJson ) ) =>
        /\ IsStructuredError(Reply)
        /\ TypeOf(Reply.val["message"]) = "str"
        /\ Reply.val["agent_id"] = DictGet(srv.payload.val, "agent_id")

\* C30: for every message whose payload is a JSON object exactly one
\* publish_to call is issued before the next receive, and it is addressed
\* to the source the message came from.
C30_OnePublishPerMessage ==
    Handled =>
        /\ srv.publish_to.destination = srv.src
        /\ srv.publish_to.message = encode(srv.msg)
        /\ srv.publish_calls = srv.received
        /\ srv.pc = "publish" => srv.published = srv.received - 1
        /\ srv.pc = "receive" => srv.published = srv.received

\* C30 witness: two replies have been published, the second to another
\* source than the first.
C30_Witness ==
    /\ srv.pc = "receive"
    /\ srv.published = 2
    /\ srv.publish_calls = 2
    /\ srv.prev_src # srv.src
    /\ srv.publish_to.destination = srv.src


\* ---------------------------------------------------------------------
\* connect_with_retry: the schedule of the backoff, the order of the calls
\* of an attempt, the bound of an attempt, termination
\* ---------------------------------------------------------------------

\* C31: for initial_delay <= 30 s the sleep after the k-th failed attempt
\* lasts min(initial_delay * 2^(k-1), 30) seconds: the first sleep lasts
\* initial_delay, each one doubles the one before and none exceeds 30 s.
\* Every attempt that failed is followed by one sleep, so that the number of
\* sleeps is the number of failed attempts.
C31_BackoffSchedule ==
    cwr.initial_delay <= Seconds(MaxBackoffSeconds) =>
        /\ cwr.sleeps >= 1 =>
               cwr.slept = Min(cwr.initial_delay * 2 ^ (cwr.sleeps - 1),
                               Seconds(MaxBackoffSeconds))
        /\ cwr.pc # "called" =>
               cwr.delay = Min(cwr.initial_delay * 2 ^ cwr.sleeps,
                               Seconds(MaxBackoffSeconds))
        /\ cwr.sleeps = IF cwr.pc \in ConnectCalls \cup {"sleep", "returned"}
                        THEN cwr.attempts - 1
                        ELSE cwr.attempts

\* Seven failed attempts from a delay of one second: the sleeps lasted 1, 2,
\* 4, 8, 16, 30 and again 30 seconds.
C31_Witness ==
    /\ cwr.initial_delay = Seconds(1)
    /\ cwr.sleeps = 7
    /\ cwr.slept = Seconds(MaxBackoffSeconds)
    /\ cwr.sleep_end - cwr.start_time >= Seconds(1 + 2 + 4 + 8 + 16 + 30 + 30)

ConnectOrder == <<"create_agent", "connect", "subscribe">>

\* C32: the calls an attempt makes are a prefix of create_agent, connect,
\* subscribe, in this order, from create_agent on: the call an attempt is in
\* is the last one of the prefix, subscribe is called only in an attempt
\* whose connect returned a connection id, and an attempt that returns has
\* made all three.
C32_AttemptOrder ==
    /\ \E n \in 0..3 : cwr.called = SubSeq(ConnectOrder, 1, n)
    /\ cwr.attempts >= 1 <=> cwr.called # << >>
    /\ cwr.pc \in ConnectCalls =>
           /\ cwr.called # << >>
           /\ cwr.called[Len(cwr.called)] = cwr.pc
    /\ cwr.pc = "create_agent" => cwr.conn_id = << >>
    /\ (cwr.pc = "subscribe" \/ cwr.pc = "returned") =>
           /\ cwr.called = ConnectOrder
           /\ cwr.conn_id = <<cwr.connects>>

\* The attempt after one whose subscribe raised, with the connection open,
\* is at create_agent again.
C32_Witness ==
    /\ cwr.pc = "create_agent"
    /\ cwr.attempts >= 2
    /\ cwr.error = "RuntimeError"
    /\ cwr.connects >= 1
    /\ cwr.called = <<"create_agent">>

\* C33: an attempt runs under the timeout of what is left of the budget when
\* it starts: while it runs, the budget (start_time + max_duration) has not
\* been passed, and an attempt wait_for abandons is abandoned at exactly
\* that time and counts as failed.
C33_AttemptBounded ==
    /\ cwr.pc \in ConnectCalls =>
           /\ cwr.deadline = cwr.start_time + cwr.max_duration
           /\ now <= cwr.start_time + cwr.max_duration
    /\ (cwr.pc = "sleep" /\ cwr.error = "TimeoutError") =>
           /\ now = cwr.start_time + cwr.max_duration
           /\ cwr.ret = << >>

\* A second attempt, still in flight when the budget ran out, was abandoned.
C33_Witness ==
    /\ cwr.pc = "sleep"
    /\ cwr.error = "TimeoutError"
    /\ cwr.attempts >= 2
    /\ cwr.called = ConnectOrder
    /\ now = cwr.start_time + cwr.max_duration

\* C34: connect_with_retry terminates: whatever the transport does, it
\* comes to return a connection id or to raise TimeoutError.
C34_Terminates ==
    <>(\/ cwr.pc = "returned" /\ cwr.ret # << >>
       \/ cwr.pc = "raised" /\ cwr.raised = "TimeoutError")

\* A return in the fourth attempt or later, after a sleep for each failure.
C34_Witness ==
    /\ cwr.pc = "returned"
    /\ cwr.ret # << >>
    /\ cwr.attempts >= 4
    /\ cwr.sleeps = cwr.attempts - 1

\* C40: with max_duration <= 0 the loop body is never entered: no attempt,
\* no transport call, no sleep, and the call raises TimeoutError.
C40_NoBudgetNoAttempt ==
    cwr.max_duration <= 0 =>
        /\ cwr.pc \in {"called", "loop", "raised"}
        /\ cwr.attempts = 0
        /\ cwr.called = << >>
        /\ cwr.connects = 0
        /\ cwr.sleeps = 0
        /\ cwr.attempt_time = 0
        /\ cwr.pc = "raised" => cwr.raised = "TimeoutError"

C40_Witness ==
    /\ cwr.max_duration < 0
    /\ cwr.pc = "raised"
    /\ cwr.raised = "TimeoutError"
    /\ cwr.attempts = 0


\* ---------------------------------------------------------------------
\* start_server: when the message is recorded as last seen
\* ---------------------------------------------------------------------

\* C35: while the reply of a message is being published, the last-seen
\* source is still the source of the message before it (the empty initial
\* value when there was none), and the last-seen message is not yet the
\* message being answered.
C35_LastSeenAfterPublish ==
    srv.pc = "publish" =>
        /\ srv.last_src = srv.prev_src
        /\ srv.received = 1 => srv.last_msg = PyStr("")

\* C35 as the code has it: the source and the decoded message are recorded
\* as last seen right after decoding, before process_message and publish_to:
\* while the reply is being published, and from then to the next receive,
\* the last-seen record is the message being answered.
C35_LastSeenBeforePublish ==
    /\ srv.pc = "publish" =>
           /\ srv.last_src = srv.src
           /\ srv.last_msg = srv.payload
    /\ (srv.pc = "receive" /\ srv.received >= 1) =>
           /\ srv.last_src = srv.src
           /\ srv.last_msg = srv.payload

\* The reply of the second message is being published, to another source
\* than the first message's: last seen is the second message.
C35_Witness ==
    /\ srv.pc = "publish"
    /\ srv.received = 2
    /\ srv.published = 1
    /\ srv.prev_src # srv.src
    /\ srv.last_src = srv.src
    /\ srv.last_msg = srv.payload


\* ---------------------------------------------------------------------
\* GatewayContainer: register_route and deregister_route in concurrent tasks
\* ---------------------------------------------------------------------

\* The tasks started are all done, all of them were for this route, and both
\* a register_route and a deregister_route were among them.
RacedFor(key) ==
    LET started == {t \in TaskIds : tasks[t].pc # "not_started"}
    IN /\ \A t \in started : tasks[t].pc = "done" /\ TaskKey(tasks[t]) = key
       /\ \E t \in started : tasks[t].op = "register_route"
       /\ \E t \in started : tasks[t].op = "deregister_route"

\* C36: when register_route and deregister_route for one route have run as
\* concurrent tasks and both are done, the registry holds the route exactly
\* when the call the transport acknowledged last for it was set_route.
C36_RegistryFollowsTransport ==
    \A key \in TaskRoutes :
        RacedFor(key) =>
            (key \in FlatTriples(Self) <=> LastAcknowledged(key) = "set_route")

\* The routes of one agent in the nested index.
NestedRoutesOf(self, remote_agent) ==
    {key \in NestedTriples(self) : key[3] = remote_agent}

\* C37: what a query can see at any point where tasks are suspended is never
\* a half-applied mutation.  The two indexes hold the same routes and an
\* agent has at most one; the registry changes only in the step in which a
\* task resumes, and that one step takes it from the state before to the
\* state after: a register_route that overwrites leaves the agent with the
\* new route and without the old one, a deregister_route leaves it without
\* the route, and a call whose transport call failed changes nothing.
C37_Step ==
    /\ NestedTriples(Self') = FlatTriples(Self')
    /\ \A key \in TaskRoutes : Cardinality(NestedRoutesOf(Self', key[3])) <= 1
    /\ (\A t \in TaskIds : ~(tasks[t].pc = "ready" /\ tasks'[t].pc = "done"))
           => Self' = Self
    /\ \A t \in TaskIds :
           (tasks[t].pc = "ready" /\ tasks'[t].pc = "done") =>
               LET key == TaskKey(tasks[t])
                   others == {k \in FlatTriples(Self) : k[3] # key[3]}
               IN CASE tasks[t].transport = "raised" -> Self' = Self
                    [] tasks[t].op = "register_route" ->
                           /\ FlatTriples(Self') = others \cup {key}
                           /\ NestedRoutesOf(Self', key[3]) = {key}
                    [] OTHER ->
                           /\ FlatTriples(Self') = FlatTriples(Self) \ {key}
                           /\ key \notin NestedTriples(Self')

C37_NoPartialMutation == [][C37_Step]_vars

\* Two register_route tasks for one agent under two organizations are done,
\* a third route shares the bucket: the agent has the route of the task that
\* resumed last, and not the other.
C37_Witness ==
    /\ \E t1, t2 \in TaskIds :
           /\ tasks[t1].pc = "done" /\ tasks[t2].pc = "done"
           /\ tasks[t1].op = "register_route"
           /\ tasks[t2].op = "register_route"
           /\ tasks[t1].transport = "returned"
           /\ tasks[t2].transport = "returned"
           /\ TaskKey(tasks[t1]) = <<"org1", "ns1", "agent1">>
           /\ TaskKey(tasks[t2]) = <<"org2", "ns1", "agent1">>
           /\ tasks[t1].acked > tasks[t2].acked
    /\ NestedRoutesOf(Self, "agent1") = {<<"org2", "ns1", "agent1">>}
    /\ FlatTriples(Self) = {<<"org2", "ns1", "agent1">>}

\* ---------------------------------------------------------------------
\* RouteManager: idempotence and frame of add_route and delete_route
\* ---------------------------------------------------------------------

\* C38: add_route is idempotent.  In every state the registry reaches, a
\* second add_route(o, n, a) leaves both indexes as the first left them; and
\* an add_route call for the route the agent already had left the registry
\* as it was.
C38_AddRouteIdempotent ==
    /\ \A o \in Organizations, n \in Namespaces, a \in Agents :
           /\ add_route(add_route(Self, o, n, a).self, o, n, a).self =
                  add_route(Self, o, n, a).self
           /\ add_route(add_route(Self, o, n, a).self, o, n, a).raised = "none"
           /\ add_route(add_route(Self, o, n, a).self, o, n, a).existing_route =
                  RouteInfo(o, n, a)
    /\ (/\ last.op = "add_route"
        /\ route_exists(before, last.organization, last.namespace,
                        last.remote_agent)) => Self = before

\* An add_route repeated for an agent that shares its bucket with another.
C38_Witness ==
    /\ last.op = "add_route"
    /\ last.existing_route =
           RouteInfo(last.organization, last.namespace, last.remote_agent)
    /\ Self = before
    /\ Cardinality(DOMAIN routes_by_organization_and_namespace
                       [last.organization][last.namespace]) >= 2

\* C39: add_route(o, n, a) and delete_route(o, n, a) change nothing for
\* another agent b: get_route_by_remote_agent(b) returns what it returned
\* before, and b is in the same buckets, with the same RouteInfo, also when
\* the call removed the emptied namespace or organization of a.
C39_OtherAgentsUntouched ==
    last.op \in {"add_route", "delete_route"} =>
        \A b \in Agents \ {last.remote_agent} :
            /\ get_route_by_remote_agent(Self, b) =
                   get_route_by_remote_agent(before, b)
            /\ NestedRoutesOf(Self, b) = NestedRoutesOf(before, b)
            /\ \A key \in NestedRoutesOf(Self, b) :
                   routes_by_organization_and_namespace[key[1]][key[2]][b] =
                       before.routes_by_organization_and_namespace
                           [key[1]][key[2]][b]

\* A call for agent a removed a's namespace, the last of its organization,
\* and with it the organization, while two other agents had routes.
C39_Witness ==
    /\ last.op \in {"add_route", "delete_route"}
    /\ \E route \in Range(before.routes_by_remote_agent) :
           /\ route.remote_agent = last.remote_agent
           /\ route.organization \notin
                  DOMAIN routes_by_organization_and_namespace
    /\ Cardinality(DOMAIN routes_by_remote_agent \ {last.remote_agent}) >= 2

====
